---- MODULE Spec2Model ----
\* mailproc: the rule engine (handle), its caller (run), the process runner
\* (Job) and the configuration validator (Config::test).
EXTENDS Naturals, Sequences, FiniteSets, TLC

\* ---------------------------------------------------------------- bounds
MaxRules == 2
MaxGroups == 2
MaxPairs == 2
MaxActions == 2

\* ---------------------------------------------------------------- options
\* Option<T>: None is the empty tuple, Some(x) the one-element tuple.
None == << >>
Some(x) == << x >>
IsSome(o) == Len(o) = 1
IsNone(o) == Len(o) = 0
Unwrap(o) == o[1]

\* All sequences over S of length lo..hi.
SeqsBetween(S, lo, hi) == UNION { [1..n -> S] : n \in lo..hi }

\* ---------------------------------------------------------------- regex
\* The patterns of the model. "A" and "B" are literals, "(" compiles under
\* neither engine, "(?-u:\\xFF)" matches the byte FF and therefore compiles
\* as a byte regex only.
TextPatterns == { "A", "B", "(" }

\* Regex::new(p).is_ok()
RegexNew(p) == p \in { "A", "B" }

\* regex::bytes::Regex::new(p).is_ok()
BytesRegexNew(p) == p \in { "A", "B", "(?-u:\\xFF)" }

\* The token a compiled pattern searches for.
Needle(p) == IF p = "(?-u:\\xFF)" THEN "\\xFF" ELSE p

\* re.is_match(text): an unanchored search of the text (a sequence of tokens).
IsMatch(p, text) == \E i \in 1..Len(text) : text[i] = Needle(p)

\* ---------------------------------------------------------------- messages
\* A raw buffer is a sequence of lines; a line is a header line (k: v), the
\* blank line, or a line of text without a colon.
HdrLine(k, v) == [kind |-> "hdr", k |-> k, v |-> v]
BlankLine == [kind |-> "blank", k |-> "", v |-> << >>]
TextLine(v) == [kind |-> "text", k |-> "", v |-> v]

RECURSIVE Flatten(_)
Flatten(lines) ==
    IF lines = << >> THEN << >> ELSE Head(lines).v \o Flatten(Tail(lines))

\* The bytes a byte regex searches: every token of every line.
RawBytes(buf) == Flatten(buf)

\* mailparse::parse_headers: header lines up to the blank line or the end of
\* the input; a line without a colon in the header section is a parse error.
RECURSIVE ParseHeaders(_, _)
ParseHeaders(buf, ix) ==
    IF ix > Len(buf) THEN [ok |-> TRUE, headers |-> << >>, next |-> ix]
    ELSE IF buf[ix].kind = "blank" THEN [ok |-> TRUE, headers |-> << >>, next |-> ix + 1]
    ELSE IF buf[ix].kind = "text" THEN [ok |-> FALSE, headers |-> << >>, next |-> ix]
    ELSE LET rest == ParseHeaders(buf, ix + 1)
         IN  [ok |-> rest.ok,
              headers |-> << [k |-> buf[ix].k, v |-> buf[ix].v] >> \o rest.headers,
              next |-> rest.next]

\* mailparse::parse_mail: Some(view) or None on a parse error. The view keeps
\* the headers and the undecoded body lines.
ParseMail(buf) ==
    LET h == ParseHeaders(buf, 1)
    IN  IF h.ok
        THEN Some([headers |-> h.headers,
                   rawbody |-> Flatten(SubSeq(buf, h.next, Len(buf)))])
        ELSE None

\* MailHeaderMap::get_first_value: the value of the first header named k.
RECURSIVE GetFirstValue(_, _)
GetFirstValue(headers, k) ==
    IF headers = << >> THEN None
    ELSE IF Head(headers).k = k THEN Some(Head(headers).v)
    ELSE GetFirstValue(Tail(headers), k)

\* Base64 decoding of one token; None when the token is not valid base64.
Decode64(tok) ==
    IF tok = "QQ==" THEN Some("A")
    ELSE IF tok = "Qg==" THEN Some("B")
    ELSE None

\* Lossy charset decoding of one token: an invalid byte becomes U+FFFD.
DecodeCharset(tok) == IF tok = "\\xFF" THEN "\\uFFFD" ELSE tok

\* ParsedMail::get_body: the decoded body text, or None when the transfer
\* encoding is base64 and the body is not valid base64.
GetBody(view) ==
    LET cte == GetFirstValue(view.headers, "Content-Transfer-Encoding")
        b == view.rawbody
    IN  IF IsSome(cte) /\ Unwrap(cte) = << "base64" >>
        THEN IF \A i \in 1..Len(b) : IsSome(Decode64(b[i]))
             THEN Some([i \in 1..Len(b) |-> Unwrap(Decode64(b[i]))])
             ELSE None
        ELSE Some([i \in 1..Len(b) |-> DecodeCharset(b[i])])

\* ---------------------------------------------------------------- matcher
\* A Rule is a record of five options. A headers group (a HashMap) is the
\* sequence of its (k, v) entries in the map's iteration order.
Rule(h, b, r, a, f) == [headers |-> h, body |-> b, raw |-> r, action |-> a, filter |-> f]

\* HeaderEntry with `doaction = ...` in place of `doaction &= ...`.
HeaderEntryAssign(doaction, parsed, entry) ==
    IF ~RegexNew(entry.v) THEN FALSE
    ELSE LET h == GetFirstValue(parsed.headers, entry.k)
         IN  IF IsSome(h) THEN IsMatch(entry.v, Unwrap(h)) ELSE FALSE

\* One (k, v) entry of a headers set, lines 306-319: doaction after the entry.
HeaderEntry(doaction, parsed, entry) ==
    IF ~RegexNew(entry.v) THEN FALSE
    ELSE LET h == GetFirstValue(parsed.headers, entry.k)
         IN  doaction /\ (IF IsSome(h) THEN IsMatch(entry.v, Unwrap(h)) ELSE FALSE)

\* The inner loop over one headers set, lines 305-319.
RECURSIVE HeadersSet(_, _, _)
HeadersSet(doaction, parsed, set) ==
    IF set = << >> THEN doaction
    ELSE HeadersSet(HeaderEntry(doaction, parsed, Head(set)), parsed, Tail(set))

\* The loop over headers_vec, lines 304-321: mail_match.headers |= doaction.
RECURSIVE HeadersVec(_, _, _)
HeadersVec(acc, parsed, vec) ==
    IF vec = << >> THEN acc
    ELSE HeadersVec(acc \/ HeadersSet(TRUE, parsed, Head(vec)), parsed, Tail(vec))

\* BodyEntry that skips a pattern that does not compile without failing it.
BodyEntrySkipsBad(doaction, parsed, body_re) ==
    IF ~RegexNew(body_re) THEN doaction
    ELSE LET b == GetBody(parsed)
         IN  doaction /\ (IF IsSome(b) THEN IsMatch(body_re, Unwrap(b)) ELSE FALSE)

\* One pattern of a body set, lines 328-339.
BodyEntry(doaction, parsed, body_re) ==
    IF ~RegexNew(body_re) THEN FALSE
    ELSE LET b == GetBody(parsed)
         IN  doaction /\ (IF IsSome(b) THEN IsMatch(body_re, Unwrap(b)) ELSE FALSE)

RECURSIVE BodySet(_, _, _)
BodySet(doaction, parsed, set) ==
    IF set = << >> THEN doaction
    ELSE BodySet(BodyEntry(doaction, parsed, Head(set)), parsed, Tail(set))

\* The loop over body_vec, lines 325-342.
RECURSIVE BodyVec(_, _, _)
BodyVec(acc, parsed, vec) ==
    IF vec = << >> THEN acc
    ELSE BodyVec(acc \/ BodySet(TRUE, parsed, Head(vec)), parsed, Tail(vec))

\* One pattern of a raw set, lines 349-357.
RawEntry(doaction, buffer, raw_re) ==
    IF ~BytesRegexNew(raw_re) THEN FALSE
    ELSE doaction /\ IsMatch(raw_re, RawBytes(buffer))

RECURSIVE RawSet(_, _, _)
RawSet(doaction, buffer, set) ==
    IF set = << >> THEN doaction
    ELSE RawSet(RawEntry(doaction, buffer, Head(set)), buffer, Tail(set))

\* The loop over raw_vec, lines 346-360.
RECURSIVE RawVec(_, _, _)
RawVec(acc, buffer, vec) ==
    IF vec = << >> THEN acc
    ELSE RawVec(acc \/ RawSet(TRUE, buffer, Head(vec)), buffer, Tail(vec))

\* The Match struct of one rule against (buffer, parsed), lines 297-361.
MailMatch(rule, buffer, parsed) ==
    [headers |-> IF IsSome(rule.headers)
                 THEN HeadersVec(IsNone(rule.headers), parsed, Unwrap(rule.headers))
                 ELSE IsNone(rule.headers),
     body    |-> IF IsSome(rule.body)
                 THEN BodyVec(IsNone(rule.body), parsed, Unwrap(rule.body))
                 ELSE IsNone(rule.body),
     raw     |-> IF IsSome(rule.raw)
                 THEN RawVec(IsNone(rule.raw), buffer, Unwrap(rule.raw))
                 ELSE IsNone(rule.raw)]

\* matched with `||` in place of the second `&&`.
MatchedSlip(m) == (m.headers /\ m.body) \/ m.raw

\* Match::matched
Matched(m) == m.headers /\ m.body /\ m.raw

\* ---------------------------------------------------------------- jobs
\* subprocess::ExitStatus; exit_status() is an Option of it.
ExitStatuses == { "Exited(0)", "Exited(1)", "Signaled", "Other", "Undetermined" }

\* Job::success
Success(job) == IF IsSome(job.exit) THEN Unwrap(job.exit) = "Exited(0)" ELSE FALSE

\* FilterBuffer without the test of job.success().
FilterBufferAnyExit(filter_res) ==
    IF IsSome(filter_res) THEN Unwrap(filter_res).stdout ELSE None

\* Lines 259-271: the output of the filter, taken only from a successful job.
FilterBuffer(filter_res) ==
    IF IsSome(filter_res) /\ Success(Unwrap(filter_res))
    THEN Unwrap(filter_res).stdout
    ELSE None

\* Lines 274-286: the parsed output of the filter, if there is one and it parses.
FilterParsed(filter_buffer) ==
    IF IsSome(filter_buffer) THEN ParseMail(Unwrap(filter_buffer)) ELSE None

\* Lines 289-292: the (buffer, parsed) pair the rule is matched against.
Effective(filter_res, orig_buf, orig_parsed) ==
    LET fb == FilterBuffer(filter_res)
        fp == FilterParsed(fb)
    IN  IF IsSome(fb) /\ IsSome(fp)
        THEN [buffer |-> Unwrap(fb), parsed |-> Unwrap(fp), filtered |-> TRUE]
        ELSE [buffer |-> orig_buf, parsed |-> orig_parsed, filtered |-> FALSE]

\* The patterns of a rule that fail to compile, in the order handle meets
\* them (lib.rs:307-313, 328-334, 349-355).
BadPatterns(rule) ==
    LET hs == IF IsSome(rule.headers) THEN Unwrap(rule.headers) ELSE << >>
        bs == IF IsSome(rule.body) THEN Unwrap(rule.body) ELSE << >>
        rs == IF IsSome(rule.raw) THEN Unwrap(rule.raw) ELSE << >>
        hv == Flatten([g \in DOMAIN hs |->
                  [v |-> [i \in DOMAIN hs[g] |-> hs[g][i].v]]])
        bv == Flatten([g \in DOMAIN bs |-> [v |-> bs[g]]])
        rv == Flatten([g \in DOMAIN rs |-> [v |-> rs[g]]])
    IN  SelectSeq(hv, LAMBDA x : ~RegexNew(x))
        \o SelectSeq(bv, LAMBDA x : ~RegexNew(x))
        \o SelectSeq(rv, LAMBDA x : ~BytesRegexNew(x))

\* The error! lines of one iteration of handle's loop: lib.rs:262-267,
\* 278-281, and one line per pattern that does not compile.
RuleLog(i, rule, filter_res) ==
    LET fb == FilterBuffer(filter_res)
    IN  (IF IsSome(filter_res) /\ ~Success(Unwrap(filter_res))
         THEN << [rule |-> i, msg |-> "Rule filter failed"] >> ELSE << >>)
        \o (IF IsSome(fb) /\ IsNone(FilterParsed(fb))
            THEN << [rule |-> i, msg |-> "Could not parse output from filter"] >>
            ELSE << >>)
        \o [n \in DOMAIN BadPatterns(rule) |->
               [rule |-> i, msg |-> "Could not compile regex"]]

\* ---------------------------------------------------------------- inputs
MailPlain == << HdrLine("From", << "A" >>), HdrLine("Subject", << "B" >>),
                BlankLine, TextLine(<< "B" >>) >>
MailTwice == << HdrLine("From", << "B" >>), HdrLine("From", << "A" >>),
                BlankLine, TextLine(<< "A" >>) >>
MailBase64 == << HdrLine("Content-Transfer-Encoding", << "base64" >>),
                 BlankLine, TextLine(<< "QQ==" >>) >>
MailBadBase64 == << HdrLine("Content-Transfer-Encoding", << "base64" >>),
                    HdrLine("From", << "B" >>), BlankLine, TextLine(<< "A" >>) >>
MailBytes == << HdrLine("Subject", << "A" >>), BlankLine, TextLine(<< "\\xFF" >>) >>
MailFiltered == << HdrLine("From", << "A" >>), HdrLine("Subject", << "A" >>),
                   BlankLine, TextLine(<< "B" >>) >>
MailEmpty == << >>
MailGarbage == << TextLine(<< "A" >>) >>

\* The messages read from stdin in the engine runs (each parses, cli.rs:77-83).
InputMails == { MailPlain, MailTwice, MailBase64 }

\* What a filter may leave on its stdout: nothing captured, or some bytes.
StdoutOpts == { None, Some(MailEmpty), Some(MailGarbage), Some(MailFiltered) }

\* What exit_status() may be once Job::run is over.
ExitOpts == { None } \cup { Some(e) : e \in ExitStatuses }

FilterCmd == << "filt", "-x" >>
ActionCmd(i) == << "deliver", i >>

\* The predicate fields of the rules of the engine runs.
EnginePreds ==
    { [headers |-> None, body |-> None, raw |-> None],
      [headers |-> Some(<< << [k |-> "From", v |-> "A"] >> >>), body |-> None, raw |-> None],
      [headers |-> Some(<< << [k |-> "From", v |-> "A"] >> >>), body |-> None,
       raw |-> Some(<< << "B" >> >>)] }

\* The action field shared by the rules of one engine run: absent, or the
\* first n of the actions.
ActionOpts == { None } \cup { Some([i \in 1..n |-> ActionCmd(i)]) : n \in 0..MaxActions }

EngineRules(a) ==
    { Rule(p.headers, p.body, p.raw, a, f) :
        p \in EnginePreds, f \in { None, Some(FilterCmd) } }

EngineConfigs == UNION { SeqsBetween(EngineRules(a), 0, MaxRules) : a \in ActionOpts }

\* The rules of the matcher runs: one predicate field ranges over every
\* list of at most MaxGroups groups holding at most MaxPairs pairs in all,
\* the other fields over a few fixed values; no filter and no action.
HeaderNames == { "From", "Subject" }
RawPatterns == { "B", "(", "(?-u:\\xFF)" }

RECURSIVE TotalLen(_)
TotalLen(vec) == IF vec = << >> THEN 0 ELSE Len(Head(vec)) + TotalLen(Tail(vec))

VecsOver(groups) ==
    { vec \in SeqsBetween(groups, 0, MaxGroups) : TotalLen(vec) <= MaxPairs }

HeaderSets ==
    { set \in SeqsBetween([k : HeaderNames, v : TextPatterns], 0, MaxPairs) :
         \A i, j \in DOMAIN set : i # j => set[i].k # set[j].k }

HeaderVecs == VecsOver(HeaderSets)
BodyVecs == VecsOver(SeqsBetween(TextPatterns, 0, MaxPairs))
RawVecs == VecsOver(SeqsBetween(RawPatterns, 0, MaxPairs))

MatchRules ==
    { Rule(Some(h), None, r, None, None) :
         h \in HeaderVecs, r \in { None, Some(<< << "B" >> >>) } }
    \cup { Rule(h, Some(b), None, None, None) :
         b \in BodyVecs, h \in { None, Some(<< << [k |-> "Subject", v |-> "B"] >> >>) } }
    \cup { Rule(None, b, Some(r), None, None) :
         r \in RawVecs, b \in { None, Some(<< << "A" >> >>) } }

FollowRules ==
    { Rule(None, None, None, None, None),
      Rule(None, None, Some(<< << "A" >> >>), None, None) }

MatchConfigs ==
    { << r >> : r \in MatchRules }
    \cup { << r, f >> : r \in MatchRules, f \in FollowRules }

MatchMails == { MailPlain, MailTwice, MailBadBase64, MailBytes }

\* ---------------------------------------------------------------- state
VARIABLES
    config,       \* Config.rules
    input_buf,    \* the bytes read from stdin
    parsed_mail,  \* the view parsed from input_buf
    pc,           \* where run / handle / Config::test is
    cur,          \* index of the rule the loop is at
    filter_res,   \* handle's filter_res: Option<Job>
    evals,        \* per rule evaluated so far: its Match and the pair it used
    result,       \* what handle returned: Option<(rule, buffer)>
    act,          \* index of the action run's loop is at
    job,          \* run's job: the last action's Job
    children,     \* every child process created so far, in order
    log,          \* the error! lines written so far
    path,         \* the programs `which` resolves
    success,      \* Config::test's success
    reports       \* the lines Config::test printed

vars == << config, input_buf, parsed_mail, pc, cur, filter_res, evals, result,
           act, job, children, log, log, path, success, reports >>


Child(kind, rule, cmd, input) ==
    [kind |-> kind, rule |-> rule, cmd |-> cmd, input |-> input, live |-> TRUE]

\* The last child has been waited for (p.wait(), lib.rs:51).
Reaped(cs) == [cs EXCEPT ![Len(cs)].live = FALSE]

\* run() up to the call of handle, cli.rs:69-85.
InitWith(cfgs, mails) ==
    /\ config \in cfgs
    /\ input_buf \in mails
    /\ parsed_mail = Unwrap(ParseMail(input_buf))
    /\ pc = "loop"
    /\ cur = 1
    /\ filter_res = None
    /\ evals = << >>
    /\ result = None
    /\ act = 1
    /\ job = None
    /\ children = << >>
    /\ log = << >>
    /\ path = { }
    /\ success = TRUE
    /\ reports = << >>

Init == InitWith(EngineConfigs, InputMails)

\* ---------------------------------------------------------------- handle
\* lib.rs:253-254: the rule has no filter.
FilterNone ==
    /\ pc = "loop"
    /\ cur <= Len(config)
    /\ IsNone(config[cur].filter)
    /\ filter_res' = None
    /\ pc' = "match"
    /\ UNCHANGED << config, input_buf, parsed_mail, cur, evals, result, act, job,
                    children, log, path, success, reports >>

\* A variant of FilterSpawn that feeds a filter the buffer the previous rule
\* was matched against.
FilterSpawnChained ==
    /\ pc = "loop"
    /\ cur <= Len(config)
    /\ IsSome(config[cur].filter)
    /\ children' = Append(children,
                      Child("filter", cur, Unwrap(config[cur].filter),
                            IF evals = << >> THEN input_buf ELSE evals[Len(evals)].buffer))
    /\ pc' = "filter_wait"
    /\ UNCHANGED << config, input_buf, parsed_mail, cur, filter_res, evals, result,
                    act, job, log, path, success, reports >>

\* lib.rs:255, Job::run lib.rs:30-43: the filter's process is created, with
\* input_buf on its stdin.
FilterSpawn ==
    /\ pc = "loop"
    /\ cur <= Len(config)
    /\ IsSome(config[cur].filter)
    /\ children' = Append(children, Child("filter", cur, Unwrap(config[cur].filter), input_buf))
    /\ pc' = "filter_wait"
    /\ UNCHANGED << config, input_buf, parsed_mail, cur, filter_res, evals, result,
                    act, job, log, path, success, reports >>

\* lib.rs:43: Popen::create failed, and expect() panics.
FilterSpawnFail ==
    /\ pc = "loop"
    /\ cur <= Len(config)
    /\ IsSome(config[cur].filter)
    /\ pc' = "panicked"
    /\ UNCHANGED << config, input_buf, parsed_mail, cur, filter_res, evals, result,
                    act, job, children, log, path, success, reports >>

\* Job::run lib.rs:45-57: the streams are drained and the child waited for.
FilterFinish ==
    /\ pc = "filter_wait"
    /\ \E e \in ExitOpts, out \in StdoutOpts :
          filter_res' = Some([exit |-> e, stdout |-> out])
    /\ children' = Reaped(children)
    /\ pc' = "match"
    /\ UNCHANGED << config, input_buf, parsed_mail, cur, evals, result, act, job,
                    log, path, success, reports >>

\* MatchRule without the return: the loop goes on after a match.
MatchRuleGoesOn ==
    /\ pc = "match"
    /\ LET eff == Effective(filter_res, input_buf, parsed_mail)
           mail_match == MailMatch(config[cur], eff.buffer, eff.parsed)
       IN  /\ evals' = Append(evals, [mail_match |-> mail_match,
                                      filtered |-> eff.filtered,
                                      buffer |-> eff.buffer,
                                      parsed |-> eff.parsed])
           /\ result' = IF Matched(mail_match)
                        THEN Some([rule |-> cur, buffer |-> eff.buffer])
                        ELSE result
    /\ pc' = "loop"
    /\ cur' = cur + 1
    /\ log' = log \o RuleLog(cur, config[cur], filter_res)
    /\ filter_res' = None
    /\ UNCHANGED << config, input_buf, parsed_mail, act, job, children, path,
                    success, reports >>

\* lib.rs:258-366: the pair to match against is chosen, the rule is matched,
\* and handle returns it or goes on to the next rule.
MatchRule ==
    /\ pc = "match"
    /\ LET eff == Effective(filter_res, input_buf, parsed_mail)
           mail_match == MailMatch(config[cur], eff.buffer, eff.parsed)
       IN  /\ evals' = Append(evals, [mail_match |-> mail_match,
                                      filtered |-> eff.filtered,
                                      buffer |-> eff.buffer,
                                      parsed |-> eff.parsed])
           /\ IF Matched(mail_match)
              THEN /\ result' = Some([rule |-> cur, buffer |-> eff.buffer])
                   /\ pc' = "returned"
                   /\ cur' = cur
              ELSE /\ result' = result
                   /\ pc' = "loop"
                   /\ cur' = cur + 1
    /\ log' = log \o RuleLog(cur, config[cur], filter_res)
    /\ filter_res' = None
    /\ UNCHANGED << config, input_buf, parsed_mail, act, job, children, path,
                    success, reports >>

\* lib.rs:368: no rule matched.
ReturnNone ==
    /\ pc = "loop"
    /\ cur > Len(config)
    /\ result' = None
    /\ pc' = "returned"
    /\ UNCHANGED << config, input_buf, parsed_mail, cur, filter_res, evals, act, job,
                    children, log, path, success, reports >>

\* ---------------------------------------------------------------- run
\* The actions left to run, cli.rs:85-87.
HasAction ==
    /\ IsSome(result)
    /\ IsSome(config[Unwrap(result).rule].action)
    /\ act <= Len(Unwrap(config[Unwrap(result).rule].action))

\* ActionSpawn that hands the action the bytes read from stdin.
ActionSpawnOriginal ==
    /\ pc = "returned"
    /\ HasAction
    /\ children' = Append(children,
           Child("action", Unwrap(result).rule,
                 Unwrap(config[Unwrap(result).rule].action)[act],
                 input_buf))
    /\ pc' = "action_wait"
    /\ UNCHANGED << config, input_buf, parsed_mail, cur, filter_res, evals, result,
                    act, job, log, path, success, reports >>

\* cli.rs:89, Job::run lib.rs:30-43: the next action's process is created,
\* with the returned buffer on its stdin.
ActionSpawn ==
    /\ pc = "returned"
    /\ HasAction
    /\ children' = Append(children,
           Child("action", Unwrap(result).rule,
                 Unwrap(config[Unwrap(result).rule].action)[act],
                 Unwrap(result).buffer))
    /\ pc' = "action_wait"
    /\ UNCHANGED << config, input_buf, parsed_mail, cur, filter_res, evals, result,
                    act, job, log, path, success, reports >>

\* lib.rs:43: Popen::create failed, and expect() panics.
ActionSpawnFail ==
    /\ pc = "returned"
    /\ HasAction
    /\ pc' = "panicked"
    /\ UNCHANGED << config, input_buf, parsed_mail, cur, filter_res, evals, result,
                    act, job, children, log, path, success, reports >>

\* Job::run lib.rs:45-57, cli.rs:90-99: the action has ended, however it ended.
ActionFinish ==
    /\ pc = "action_wait"
    /\ \E e \in ExitOpts : job' = Some([exit |-> e, stdout |-> Some(MailEmpty)])
    /\ children' = Reaped(children)
    /\ act' = act + 1
    /\ pc' = "returned"
    /\ UNCHANGED << config, input_buf, parsed_mail, cur, filter_res, evals, result,
                    log, path, success, reports >>

\* cli.rs:101-106: nothing matched, or nothing is left to run; run returns 0.
Exit ==
    /\ pc = "returned"
    /\ ~HasAction
    /\ pc' = "exit"
    /\ UNCHANGED << config, input_buf, parsed_mail, cur, filter_res, evals, result,
                    act, job, children, log, path, success, reports >>

Next ==
    \/ FilterNone
    \/ FilterSpawn
    \/ FilterSpawnFail
    \/ FilterFinish
    \/ MatchRule
    \/ ReturnNone
    \/ ActionSpawn
    \/ ActionSpawnFail
    \/ ActionFinish
    \/ Exit

Spec == Init /\ [][Next]_vars

\* The matcher runs: handle over rules without filter and action.
InitMatch == InitWith(MatchConfigs, MatchMails)

NextMatch ==
    \/ FilterNone
    \/ MatchRule
    \/ ReturnNone
    \/ Exit

SpecMatch == InitMatch /\ [][NextMatch]_vars

\* ---------------------------------------------------------------- Config::test
\* Job::found: `which program` is run and succeeds when the program is on
\* the search path.
Found(program, onpath) == program \in onpath

\* A check that test makes of a command list (lib.rs:142-151, 156-165).
CommandCheck(cmd, what, onpath) ==
    IF cmd # << >>
    THEN [probe |-> TRUE, ok |-> Found(cmd[1], onpath), report |-> "not found"]
    ELSE [probe |-> FALSE, ok |-> FALSE, report |-> what]

\* The checks of one group of patterns: the group is not empty, and each
\* pattern compiles with Regex::new (lib.rs:174-186, 196-208, 218-230).
SetChecks(patterns, what) ==
    (IF patterns = << >>
     THEN << [probe |-> FALSE, ok |-> FALSE, report |-> what] >> ELSE << >>)
    \o [i \in DOMAIN patterns |->
           [probe |-> FALSE, ok |-> RegexNew(patterns[i]),
            report |-> "Could not compile regex"]]

RECURSIVE Concat(_)
Concat(seqs) == IF seqs = << >> THEN << >> ELSE Head(seqs) \o Concat(Tail(seqs))

\* The checks of one predicate field (lib.rs:168-188, 190-210, 212-232).
VecChecks(vec, what_vec, what_set) ==
    (IF vec = << >>
     THEN << [probe |-> FALSE, ok |-> FALSE, report |-> what_vec] >> ELSE << >>)
    \o Concat([g \in DOMAIN vec |-> SetChecks(vec[g], what_set)])

\* Every check test makes of one rule that can fail, in the order it makes
\* them (lib.rs:140-232).
RuleChecks(rule, onpath) ==
    (IF IsSome(rule.action)
     THEN [a \in DOMAIN Unwrap(rule.action) |->
              CommandCheck(Unwrap(rule.action)[a], "Empty action for rule", onpath)]
     ELSE << >>)
    \o (IF IsSome(rule.filter)
        THEN << CommandCheck(Unwrap(rule.filter), "Empty filter for rule", onpath) >>
        ELSE << >>)
    \o (IF IsSome(rule.headers)
        THEN VecChecks([g \in DOMAIN Unwrap(rule.headers) |->
                          [i \in DOMAIN Unwrap(rule.headers)[g] |->
                              Unwrap(rule.headers)[g][i].v]],
                       "Empty headers set for rule", "Empty headers set in rule")
        ELSE << >>)
    \o (IF IsSome(rule.body)
        THEN VecChecks(Unwrap(rule.body), "Empty body set in rule", "Empty body set in rule")
        ELSE << >>)
    \o (IF IsSome(rule.raw)
        THEN VecChecks(Unwrap(rule.raw), "Empty raw set in rule", "Empty raw set in rule")
        ELSE << >>)

\* RunChecks that stops at the first check that fails.
RECURSIVE RunChecksShort(_, _)
RunChecksShort(acc, checks) ==
    IF checks = << >> \/ ~acc.success THEN acc
    ELSE RunChecksShort([success |-> acc.success /\ Head(checks).ok,
                         reports |-> IF Head(checks).ok THEN acc.reports
                                     ELSE Append(acc.reports, Head(checks).report)],
                        Tail(checks))

\* test's two accumulators after the given checks: success &= ok, and one
\* printed line per check that failed.
RECURSIVE RunChecks(_, _)
RunChecks(acc, checks) ==
    IF checks = << >> THEN acc
    ELSE RunChecks([success |-> acc.success /\ Head(checks).ok,
                    reports |-> IF Head(checks).ok THEN acc.reports
                                ELSE Append(acc.reports, Head(checks).report)],
                   Tail(checks))

\* lib.rs:139-233: one iteration of test's loop over the rules.
TestRule ==
    /\ pc = "test"
    /\ cur <= Len(config)
    /\ LET after == RunChecks([success |-> success, reports |-> reports],
                              RuleChecks(config[cur], path))
       IN  /\ success' = after.success
           /\ reports' = after.reports
    /\ cur' = cur + 1
    /\ UNCHANGED << config, input_buf, parsed_mail, pc, filter_res, evals, result,
                    act, job, children, log, path >>

\* lib.rs:143, 157 and 43: `which` cannot be created for one of the rule's
\* commands, and expect() panics after the checks made before it.
TestSpawnFail ==
    /\ pc = "test"
    /\ cur <= Len(config)
    /\ \E n \in DOMAIN RuleChecks(config[cur], path) :
          /\ RuleChecks(config[cur], path)[n].probe
          /\ LET after == RunChecks([success |-> success, reports |-> reports],
                                    SubSeq(RuleChecks(config[cur], path), 1, n - 1))
             IN  /\ success' = after.success
                 /\ reports' = after.reports
    /\ pc' = "panicked"
    /\ UNCHANGED << config, input_buf, parsed_mail, cur, filter_res, evals, result,
                    act, job, children, log, path >>

\* lib.rs:234 and cli.rs:59-66: test returns success, and run ends.
TestReturn ==
    /\ pc = "test"
    /\ cur > Len(config)
    /\ pc' = "tested"
    /\ UNCHANGED << config, input_buf, parsed_mail, cur, filter_res, evals, result,
                    act, job, children, log, path, success, reports >>

\* The rules of the validator runs: the predicate fields of the matcher runs,
\* every list of at most MaxActions commands, every filter.
Programs == { "deliver", "filt" }

TestActions ==
    { None } \cup { Some(a) : a \in SeqsBetween({ << >>, ActionCmd(1) }, 0, MaxActions) }

TestPreds ==
    { Rule(Some(h), None, None, None, None) : h \in HeaderVecs }
    \cup { Rule(None, Some(b), None, None, None) : b \in BodyVecs }
    \cup { Rule(None, None, Some(r), None, None) : r \in RawVecs }
    \cup { Rule(None, None, None, None, None) }

TestRules ==
    { Rule(p.headers, p.body, p.raw, a, None) :
         p \in TestPreds, a \in { None, Some(<< << >>, ActionCmd(1) >>) } }
    \cup { Rule(None, None, None, a, f) :
         a \in TestActions, f \in { None, Some(<< >>), Some(FilterCmd) } }

TestFollowRules ==
    { Rule(None, None, None, Some(<< ActionCmd(1) >>), None),
      Rule(None, None, None, None, Some(<< >>)),
      Rule(None, Some(<< << "(", "A" >> >>), Some(<< >>), None, Some(FilterCmd)) }

TestConfigs ==
    { << >> }
    \cup { << r >> : r \in TestRules }
    \cup { << f, r >> : r \in TestRules, f \in TestFollowRules }

\* run with --test, cli.rs:58-59.
InitTest ==
    /\ config \in TestConfigs
    /\ path \in SUBSET Programs
    /\ input_buf = MailEmpty
    /\ parsed_mail = Unwrap(ParseMail(MailEmpty))
    /\ pc = "test"
    /\ cur = 1
    /\ filter_res = None
    /\ evals = << >>
    /\ result = None
    /\ act = 1
    /\ job = None
    /\ children = << >>
    /\ log = << >>
    /\ success = TRUE
    /\ reports = << >>

NextTest ==
    \/ TestRule
    \/ TestSpawnFail
    \/ TestReturn

SpecTest == InitTest /\ [][NextTest]_vars

\* ---------------------------------------------------------------- reference
\* What the predicates of a rule say, stated over sets: a pair is satisfied,
\* a group is, a part is.
HeaderPairSat(parsed, entry) ==
    /\ RegexNew(entry.v)
    /\ IsSome(GetFirstValue(parsed.headers, entry.k))
    /\ IsMatch(entry.v, Unwrap(GetFirstValue(parsed.headers, entry.k)))

BodyPairSat(parsed, re) ==
    /\ RegexNew(re)
    /\ IsSome(GetBody(parsed))
    /\ IsMatch(re, Unwrap(GetBody(parsed)))

RawPairSat(buffer, re) == BytesRegexNew(re) /\ IsMatch(re, RawBytes(buffer))

HeadersSat(parsed, vec) ==
    \E g \in DOMAIN vec : \A i \in DOMAIN vec[g] : HeaderPairSat(parsed, vec[g][i])

BodySat(parsed, vec) ==
    \E g \in DOMAIN vec : \A i \in DOMAIN vec[g] : BodyPairSat(parsed, vec[g][i])

RawSat(buffer, vec) ==
    \E g \in DOMAIN vec : \A i \in DOMAIN vec[g] : RawPairSat(buffer, vec[g][i])

HeadersPart(rule, parsed) == IsNone(rule.headers) \/ HeadersSat(parsed, Unwrap(rule.headers))
BodyPart(rule, parsed) == IsNone(rule.body) \/ BodySat(parsed, Unwrap(rule.body))
RawPart(rule, buffer) == IsNone(rule.raw) \/ RawSat(buffer, Unwrap(rule.raw))

RuleSat(rule, buffer, parsed) ==
    HeadersPart(rule, parsed) /\ BodyPart(rule, parsed) /\ RawPart(rule, buffer)

NoPredicates(rule) == IsNone(rule.headers) /\ IsNone(rule.body) /\ IsNone(rule.raw)

\* handle has returned to run.
Returned == pc \in { "returned", "action_wait", "exit" }

ActionChildren == SelectSeq(children, LAMBDA c : c.kind = "action")

\* ---------------------------------------------------------------- claims
\* C1: handle returns the first rule, in declaration order, whose predicates
\* hold of the pair it was matched against; every earlier rule was evaluated
\* and did not match; no later rule is evaluated and no later rule's filter is
\* ever created; with no matching rule handle returns None after all rules.
C1_FirstMatch ==
    /\ Len(evals) <= Len(config)
    /\ IsSome(result) =>
          LET i == Unwrap(result).rule
          IN  /\ Len(evals) = i
              /\ RuleSat(config[i], evals[i].buffer, evals[i].parsed)
              /\ \A j \in 1..(i - 1) :
                    ~RuleSat(config[j], evals[j].buffer, evals[j].parsed)
              /\ \A n \in DOMAIN children :
                    children[n].kind = "filter" => children[n].rule <= i
    /\ (Returned /\ IsNone(result)) =>
          /\ Len(evals) = Len(config)
          /\ \A j \in DOMAIN config :
                ~RuleSat(config[j], evals[j].buffer, evals[j].parsed)
    /\ \A n \in DOMAIN children :
          children[n].kind = "filter" =>
             \A j \in 1..(children[n].rule - 1) :
                /\ j <= Len(evals)
                /\ ~RuleSat(config[j], evals[j].buffer, evals[j].parsed)

\* Two rules that both match the message, the later one with a filter:
\* handle returned the first, and run is over.
C1_Witness ==
    /\ pc = "exit"
    /\ Len(config) = 2
    /\ IsSome(config[2].filter)
    /\ ~NoPredicates(config[1])
    /\ RuleSat(config[2], input_buf, parsed_mail)
    /\ IsSome(result)
    /\ Unwrap(result).rule = 1

FilterFailed(fr) ==
    /\ IsSome(fr)
    /\ \/ Unwrap(fr).exit # Some("Exited(0)")
       \/ /\ IsSome(Unwrap(fr).stdout)
          /\ IsNone(ParseMail(Unwrap(Unwrap(fr).stdout)))

\* C4: after a filter that failed, or whose output does not parse, the rule
\* is still evaluated, against the original view and buffer, and if it
\* matches handle returns the original buffer.
C4_FilterFallback ==
    [][ (pc = "match" /\ FilterFailed(filter_res)) =>
           /\ Len(evals') = cur
           /\ evals'[cur].buffer = input_buf
           /\ evals'[cur].parsed = parsed_mail
           /\ Matched(evals'[cur].mail_match)
                = RuleSat(config[cur], input_buf, parsed_mail)
           /\ IF RuleSat(config[cur], input_buf, parsed_mail)
              THEN result' = Some([rule |-> cur, buffer |-> input_buf]) /\ pc' = "returned"
              ELSE result' = result /\ pc' = "loop" ]_vars

\* A rule with predicates whose filter failed was matched against the
\* original message, and handle returned it with the original buffer.
C4_Witness ==
    /\ IsSome(result)
    /\ Unwrap(result).buffer = input_buf
    /\ ~NoPredicates(config[Unwrap(result).rule])
    /\ \E n \in DOMAIN log :
          log[n] = [rule |-> Unwrap(result).rule, msg |-> "Rule filter failed"]
    /\ \E n \in DOMAIN children :
          children[n].kind = "filter" /\ children[n].rule = Unwrap(result).rule

\* The filter's job is one whose output C5 lets replace the original: exit
\* code 0, an output that is not empty and that parses.
FilterUsable(fr) ==
    /\ IsSome(fr)
    /\ Unwrap(fr).exit = Some("Exited(0)")
    /\ IsSome(Unwrap(fr).stdout)
    /\ Unwrap(Unwrap(fr).stdout) # << >>
    /\ IsSome(ParseMail(Unwrap(Unwrap(fr).stdout)))

\* C5: the filtered pair is used for matching, and returned, exactly when the
\* filter exited with code 0 and its output is non-empty and parses; in every
\* other case the original pair is used.
C5_FilteredExactlyWhen ==
    [][ pc = "match" =>
           IF FilterUsable(filter_res)
           THEN /\ evals'[cur].filtered
                /\ evals'[cur].buffer = Unwrap(Unwrap(filter_res).stdout)
                /\ evals'[cur].parsed = Unwrap(ParseMail(Unwrap(Unwrap(filter_res).stdout)))
           ELSE /\ ~evals'[cur].filtered
                /\ evals'[cur].buffer = input_buf
                /\ evals'[cur].parsed = parsed_mail ]_vars

\* C6: a failure to create a process reaches the caller as a failure of that
\* invocation, and the caller goes on from there as it decides: the program
\* is never left in a state in which nothing runs any more because a process
\* could not be created.
C6_SpawnFailurePropagates == pc # "panicked"

\* C10: handle creates no action process; run creates the matched rule's
\* actions in declared order, each with the returned buffer on its stdin and
\* only once every earlier child has been waited for, whatever the earlier
\* actions' exit outcomes; without a match or without an action field no
\* action process is created.
C10_ActionsByCaller ==
    LET acs == ActionChildren
    IN  /\ \A n \in DOMAIN children :
              children[n].live => n = Len(children)
        /\ ~Returned /\ pc # "panicked" => acs = << >>
        /\ IsNone(result) => acs = << >>
        /\ IsSome(result) =>
              LET r == config[Unwrap(result).rule]
              IN  /\ IsNone(r.action) => acs = << >>
                  /\ IsSome(r.action) =>
                        /\ Len(acs) <= Len(Unwrap(r.action))
                        /\ \A k \in DOMAIN acs :
                              /\ acs[k].cmd = Unwrap(r.action)[k]
                              /\ acs[k].input = Unwrap(result).buffer
                              /\ acs[k].rule = Unwrap(result).rule
                        /\ Len(acs) = (IF pc = "action_wait" THEN act ELSE act - 1)
                        /\ pc = "exit" => Len(acs) = Len(Unwrap(r.action))
        /\ \A n \in DOMAIN children :
              children[n].kind = "action" =>
                 \A m \in (n + 1)..Len(children) : children[m].kind = "action"

\* The second action of a rule matched on its filter's output is running,
\* after the first action was killed by a signal.
C10_Witness ==
    /\ pc = "action_wait"
    /\ act = 2
    /\ IsSome(job)
    /\ Unwrap(job).exit = Some("Signaled")
    /\ Unwrap(result).buffer # input_buf
    /\ Len(ActionChildren) = 2
    /\ ~ActionChildren[1].live

\* Every order of the groups of a part, with every order of the pairs of
\* every group.
Perms(n) == { p \in [1..n -> 1..n] : \A i, j \in 1..n : p[i] = p[j] => i = j }
PermSeq(seq, p) == [i \in DOMAIN seq |-> seq[p[i]]]
Reorders(seq) == { PermSeq(seq, p) : p \in Perms(Len(seq)) }

VecReorders(vec) ==
    UNION { Reorders(w) :
              w \in { x \in [DOMAIN vec -> UNION { Reorders(vec[g]) : g \in DOMAIN vec }] :
                         \A g \in DOMAIN vec : x[g] \in Reorders(vec[g]) } }

OptReorders(field) ==
    IF IsSome(field) THEN { Some(w) : w \in VecReorders(Unwrap(field)) } ELSE { None }

RuleReorders(rule) ==
    { Rule(h, b, r, rule.action, rule.filter) :
         h \in OptReorders(rule.headers),
         b \in OptReorders(rule.body),
         r \in OptReorders(rule.raw) }

\* C3: a configured part is satisfied exactly when one of its groups has all
\* of its pairs satisfied, a header pair being satisfied only if the header
\* is present and its first value matches; the Match of a rule is the same
\* for every order of its groups and of the pairs in them.
C3_OrOfAnd ==
    \A j \in DOMAIN evals :
       LET e == evals[j]
           r == config[j]
       IN  /\ IsSome(r.headers) =>
                 e.mail_match.headers = HeadersSat(e.parsed, Unwrap(r.headers))
           /\ IsSome(r.body) =>
                 e.mail_match.body = BodySat(e.parsed, Unwrap(r.body))
           /\ IsSome(r.raw) =>
                 e.mail_match.raw = RawSat(e.buffer, Unwrap(r.raw))
           /\ \A q \in RuleReorders(r) :
                 MailMatch(q, e.buffer, e.parsed) = e.mail_match

\* A headers part of two groups was evaluated: the first group has two pairs
\* of which one fails (its header is absent), the second group holds.
C3_Witness ==
    /\ Len(evals) >= 1
    /\ IsSome(config[1].headers)
    /\ Len(Unwrap(config[1].headers)) = 2
    /\ Len(Unwrap(config[1].headers)[1]) = 2
    /\ \E i \in 1..2 :
          /\ IsNone(GetFirstValue(evals[1].parsed.headers, Unwrap(config[1].headers)[1][i].k))
          /\ RegexNew(Unwrap(config[1].headers)[1][i].v)
    /\ evals[1].mail_match.headers

\* The groups of a part that hold no pattern that fails to compile.
GoodHeaderSets(vec) == SelectSeq(vec, LAMBDA g : \A i \in DOMAIN g : RegexNew(g[i].v))
GoodBodySets(vec) == SelectSeq(vec, LAMBDA g : \A i \in DOMAIN g : RegexNew(g[i]))
GoodRawSets(vec) == SelectSeq(vec, LAMBDA g : \A i \in DOMAIN g : BytesRegexNew(g[i]))

\* The rule without the groups that hold a pattern that fails to compile.
WithoutBad(rule) ==
    [rule EXCEPT
       !.headers = IF IsSome(@) THEN Some(GoodHeaderSets(Unwrap(@))) ELSE @,
       !.body = IF IsSome(@) THEN Some(GoodBodySets(Unwrap(@))) ELSE @,
       !.raw = IF IsSome(@) THEN Some(GoodRawSets(Unwrap(@))) ELSE @]

\* The rules that match the message read, by the reference predicates.
SatRules(cfg) ==
    { j \in DOMAIN cfg : RuleSat(cfg[j], input_buf, parsed_mail) }

\* C7: a pattern that fails to compile fails its pair; its group never makes
\* its part true, the other groups, the other parts and the later rules are
\* evaluated, and the outcome is the one of the configuration without the
\* groups that hold such a pattern; nothing is aborted.
C7_BadPatternLocal ==
    LET good == [j \in DOMAIN config |-> WithoutBad(config[j])]
    IN  /\ pc # "panicked"
        /\ \A j \in DOMAIN evals :
              LET e == evals[j]
              IN  /\ e.mail_match.headers = HeadersPart(good[j], e.parsed)
                  /\ e.mail_match.body = BodyPart(good[j], e.parsed)
                  /\ e.mail_match.raw = RawPart(good[j], e.buffer)
        /\ (Returned /\ IsSome(result)) =>
              /\ Unwrap(result).rule \in SatRules(good)
              /\ \A j \in SatRules(good) : Unwrap(result).rule <= j
        /\ (Returned /\ IsNone(result)) =>
              /\ SatRules(good) = { }
              /\ Len(evals) = Len(config)
        /\ \A n \in DOMAIN log :
              log[n].msg = "Could not compile regex" /\ log[n].rule <= Len(evals)
        /\ \A j \in DOMAIN evals :
              Len(SelectSeq(log, LAMBDA l : l.rule = j)) = Len(BadPatterns(config[j]))

\* The first rule has a body group with a pattern that fails to compile next
\* to a pattern that matches, and a second group: it did not match, and the
\* second rule was evaluated and returned.
C7_Witness ==
    /\ Len(evals) = 2
    /\ IsSome(config[1].body)
    /\ \E g \in DOMAIN Unwrap(config[1].body) :
          LET set == Unwrap(config[1].body)[g]
          IN  /\ Len(set) = 2
              /\ \E i \in 1..2 : ~RegexNew(set[i])
              /\ \E i \in 1..2 : BodyPairSat(evals[1].parsed, set[i])
    /\ Len(log) >= 1
    /\ IsSome(result)
    /\ Unwrap(result).rule = 2

\* C8: at match time a faulty element of a predicate part cannot make the
\* part match: a pattern that fails to compile fails its pair, an empty group
\* never satisfies its part, an empty list of groups leaves the part false;
\* the evaluation of the other rules is never aborted.
C8_FaultyPartCannotMatch ==
    /\ pc # "panicked"
    /\ \A j \in DOMAIN evals :
          LET e == evals[j]
              r == config[j]
              hs == IF IsSome(r.headers) THEN Unwrap(r.headers) ELSE << >>
              bs == IF IsSome(r.body) THEN Unwrap(r.body) ELSE << >>
              rs == IF IsSome(r.raw) THEN Unwrap(r.raw) ELSE << >>
          IN  /\ IsSome(r.headers) =>
                    e.mail_match.headers =
                       \E g \in DOMAIN hs :
                          /\ hs[g] # << >>
                          /\ \A i \in DOMAIN hs[g] : HeaderPairSat(e.parsed, hs[g][i])
              /\ IsSome(r.body) =>
                    e.mail_match.body =
                       \E g \in DOMAIN bs :
                          /\ bs[g] # << >>
                          /\ \A i \in DOMAIN bs[g] : BodyPairSat(e.parsed, bs[g][i])
              /\ IsSome(r.raw) =>
                    e.mail_match.raw =
                       \E g \in DOMAIN rs :
                          /\ rs[g] # << >>
                          /\ \A i \in DOMAIN rs[g] : RawPairSat(e.buffer, rs[g][i])

\* The number of checks of a rule that fail, counted field by field.
FailingCommands(cmds, onpath) ==
    Cardinality({ a \in DOMAIN cmds : cmds[a] = << >> \/ ~Found(cmds[a][1], onpath) })

FailingInVec(vec, pats) ==
    (IF vec = << >> THEN 1 ELSE 0)
    + Cardinality({ g \in DOMAIN vec : vec[g] = << >> })
    + Cardinality({ gi \in (DOMAIN vec) \X (1..MaxPairs + 1) :
                      /\ gi[2] \in DOMAIN vec[gi[1]]
                      /\ ~RegexNew(pats[gi[1]][gi[2]]) })

Failing(rule, onpath) ==
    (IF IsSome(rule.action) THEN FailingCommands(Unwrap(rule.action), onpath) ELSE 0)
    + (IF IsSome(rule.filter) THEN FailingCommands(<< Unwrap(rule.filter) >>, onpath) ELSE 0)
    + (IF IsSome(rule.headers)
       THEN FailingInVec(Unwrap(rule.headers),
                         [g \in DOMAIN Unwrap(rule.headers) |->
                            [i \in DOMAIN Unwrap(rule.headers)[g] |->
                                Unwrap(rule.headers)[g][i].v]])
       ELSE 0)
    + (IF IsSome(rule.body) THEN FailingInVec(Unwrap(rule.body), Unwrap(rule.body)) ELSE 0)
    + (IF IsSome(rule.raw) THEN FailingInVec(Unwrap(rule.raw), Unwrap(rule.raw)) ELSE 0)

RECURSIVE SumFailing(_, _)
SumFailing(cfg, onpath) ==
    IF cfg = << >> THEN 0 ELSE Failing(Head(cfg), onpath) + SumFailing(Tail(cfg), onpath)

DecodeFailed(j) ==
    /\ IsSome(config[j].body)
    /\ IsNone(GetBody(evals[j].parsed))

\* C11: when decoding the body of the view used for a rule fails, every body
\* group of that rule is not satisfied, so the body part is false and a rule
\* with a configured body field does not match such a message.
C11_DecodeFailureFailsBody ==
    \A j \in DOMAIN evals :
       DecodeFailed(j) =>
          /\ \A g \in DOMAIN Unwrap(config[j].body) :
                ~BodySet(TRUE, evals[j].parsed, Unwrap(config[j].body)[g])
          /\ ~evals[j].mail_match.body
          /\ ~Matched(evals[j].mail_match)

\* The same statement for the groups that hold at least one pattern, and for
\* the rules whose body groups all do.
C11_DecodeFailureFailsPatterns ==
    \A j \in DOMAIN evals :
       DecodeFailed(j) =>
          LET bs == Unwrap(config[j].body)
          IN  /\ \A g \in DOMAIN bs :
                    bs[g] # << >> => ~BodySet(TRUE, evals[j].parsed, bs[g])
              /\ (\A g \in DOMAIN bs : bs[g] # << >>) =>
                    /\ ~evals[j].mail_match.body
                    /\ ~Matched(evals[j].mail_match)

\* A message whose body cannot be decoded was evaluated against a rule whose
\* body groups all hold patterns, one of which the raw body text contains.
C11_PatternsWitness ==
    /\ Len(evals) >= 1
    /\ DecodeFailed(1)
    /\ Unwrap(config[1].body) # << >>
    /\ \A g \in DOMAIN Unwrap(config[1].body) : Unwrap(config[1].body)[g] # << >>
    /\ \E g \in DOMAIN Unwrap(config[1].body) :
          \E i \in DOMAIN Unwrap(config[1].body)[g] :
             /\ RegexNew(Unwrap(config[1].body)[g][i])
             /\ IsMatch(Unwrap(config[1].body)[g][i], evals[1].parsed.rawbody)
    /\ ~Matched(evals[1].mail_match)

\* The (buffer, view) pairs rule cur may be matched against when its filter's
\* job is fr: the original pair, or the output of that job with its parse.
OwnPairs(fr) ==
    { [buffer |-> input_buf, parsed |-> parsed_mail] }
       \cup IF IsSome(fr) /\ IsSome(Unwrap(fr).stdout)
                  /\ IsSome(ParseMail(Unwrap(Unwrap(fr).stdout)))
            THEN { [buffer |-> Unwrap(Unwrap(fr).stdout),
                    parsed |-> Unwrap(ParseMail(Unwrap(Unwrap(fr).stdout)))] }
            ELSE { }

\* Every filter was given the original buffer; a rule matched against
\* something else than the original pair has a filter of its own, which ran;
\* no filter job is held between two rules; the returned buffer is the one
\* the returned rule was matched against.
UnchainedState ==
    /\ \A n \in DOMAIN children :
          children[n].kind = "filter" => children[n].input = input_buf
    /\ \A j \in DOMAIN evals :
          \/ /\ ~evals[j].filtered
             /\ evals[j].buffer = input_buf
             /\ evals[j].parsed = parsed_mail
          \/ /\ evals[j].filtered
             /\ IsSome(config[j].filter)
             /\ \E n \in DOMAIN children :
                   children[n].kind = "filter" /\ children[n].rule = j
             /\ ParseMail(evals[j].buffer) = Some(evals[j].parsed)
    /\ pc = "loop" => filter_res = None
    /\ IsSome(result) =>
          /\ Unwrap(result).rule = Len(evals)
          /\ Unwrap(result).buffer = evals[Len(evals)].buffer

\* Rule cur is matched against the original pair or the output of the job of
\* its own filter, the earlier evaluations stay as they were, and a match
\* returns the buffer of that pair.
UnchainedStep ==
    pc = "match" =>
       /\ Len(evals') = cur
       /\ \A j \in DOMAIN evals : evals'[j] = evals[j]
       /\ [buffer |-> evals'[cur].buffer, parsed |-> evals'[cur].parsed]
             \in OwnPairs(filter_res)
       /\ evals'[cur].mail_match
             = MailMatch(config[cur], evals'[cur].buffer, evals'[cur].parsed)
       /\ IsSome(result') => Unwrap(result') = [rule |-> cur, buffer |-> evals'[cur].buffer]
       /\ filter_res' = None

\* C12: filters are not chained across rules: every filter is given the
\* original input buffer, the view and buffer rule i is matched against and
\* the buffer returned when rule i matches are the original input or the
\* output of rule i's own filter, and the output of the filter of a rule that
\* did not match reaches no later rule and not the returned buffer.
C12_FiltersNotChained == [](UnchainedState) /\ [][UnchainedStep]_vars

\* Rule 1 matches the original message, but was matched against the output of
\* its filter and did not match it; rule 2 has a filter too, which was given
\* the original buffer and failed, and rule 2 was returned with the original
\* buffer.
C12_Witness ==
    /\ Len(evals) = 2
    /\ RuleSat(config[1], input_buf, parsed_mail)
    /\ evals[1].filtered
    /\ evals[1].buffer # input_buf
    /\ ~Matched(evals[1].mail_match)
    /\ ~NoPredicates(config[2])
    /\ \E n \in DOMAIN children :
          /\ children[n].kind = "filter"
          /\ children[n].rule = 2
          /\ children[n].input = input_buf
    /\ ~evals[2].filtered
    /\ result = Some([rule |-> 2, buffer |-> input_buf])

====
